---- MODULE Spec2Model ----
(***************************************************************************)
(* HS classification chatbot (src/main.py): the real-time process logger,  *)
(* the category router, the query orchestrator                             *)
(* process_query_with_real_logging and the session's conversation state.   *)
(*                                                                         *)
(* Text is modelled as a sequence of string tokens, so that concatenation  *)
(* (+, +=, f-strings, join) is \o, len() is Len on character-level text    *)
(* and "begins with" is a prefix test.  The Korean literals of the source  *)
(* are written as ASCII glosses; the source line of each is given.         *)
(* An optional value (data=None) is <<>>, a present one is <<text>>.       *)
(***************************************************************************)
EXTENDS Naturals, Sequences, FiniteSets

\* ------------------------------------------------------------------ bounds
\* successful exchanges kept in one session before the model stops submitting
MaxTurns == 2
\* clock ticks (hundredths of a second) that may pass during one query
MaxClock == 1
\* sub-events the hs_manual collaborator records through the Logger handle
MaxSubEvents == 1
\* parallel sub-searches of the hs_manual collaborator
NWorkers == 2

\* --------------------------------------------------------------- constants
\* src/main.py:102  self.logs[-8:]
TailLen == 8

\* ------------------------------------------------------------ text helpers
Digits == <<"0", "1", "2", "3", "4", "5", "6", "7", "8", "9">>

RECURSIVE Dec(_)
\* str(n) of a natural number, one token per digit
Dec(n) == IF n < 10 THEN <<Digits[n + 1]>> ELSE Dec(n \div 10) \o <<Digits[(n % 10) + 1]>>

\* a number printed on two digits (%H, %M, %S, and the .2f fraction)
Pad2(n) == <<Digits[((n \div 10) % 10) + 1], Digits[(n % 10) + 1]>>

\* f"{x:.2f}" of a duration held in hundredths of a second
Fixed2(cs) == Dec(cs \div 100) \o <<".">> \o Pad2(cs % 100)

\* datetime.now().strftime("%H:%M:%S.%f")[:-3] of a clock in hundredths of a second
Strftime(cs) ==
    Pad2((cs \div 360000) % 24) \o <<":">> \o Pad2((cs \div 6000) % 60) \o <<":">>
        \o Pad2((cs \div 100) % 60) \o <<".">> \o Pad2(cs % 100) \o <<"0">>

IsPrefix(p, s) == Len(p) <= Len(s) /\ SubSeq(s, 1, Len(p)) = p

RECURSIVE Join(_, _)
\* sep.join(items) for a list of texts
Join(items, sep) ==
    IF items = <<>> THEN <<>>
    ELSE IF Len(items) = 1 THEN items[1]
    ELSE items[1] \o sep \o Join(Tail(items), sep)

RECURSIVE Strip(_)
\* str.strip() on a text whose whitespace is the token " "
Strip(s) ==
    IF s = <<>> THEN s
    ELSE IF Head(s) = " " THEN Strip(Tail(s))
    ELSE IF s[Len(s)] = " " THEN Strip(SubSeq(s, 1, Len(s) - 1))
    ELSE s

NoneV == <<>>
Some(text) == <<text>>
\* truthiness of an optional text: None and "" are falsy
Truthy(opt) == opt # <<>> /\ opt[1] # <<>>

\* --------------------------------------------------- RealTimeProcessLogger
\* icons.get(level, default)
Icon(level) ==
    CASE level = "INFO" -> "(i)"
      [] level = "SUCCESS" -> "(ok)"
      [] level = "ERROR" -> "(x)"
      [] level = "DATA" -> "(chart)"
      [] level = "AI" -> "(robot)"
      [] level = "SEARCH" -> "(lens)"
      [] OTHER -> "(memo)"

LogEntry(t, start, level, message, data) ==
    [time |-> Strftime(t), elapsed |-> Fixed2(t - start) \o <<"s">>,
     level |-> level, message |-> message, data |-> data]

\* self.logs.append(log_entry)
AppendEntry(entries, t, start, level, message, data) ==
    Append(entries, LogEntry(t, start, level, message, data))

\* mutant of LastEntries: the first eight entries instead of the last (logs[:8])
LastEntriesFromFront(entries) ==
    IF Len(entries) <= TailLen THEN entries ELSE SubSeq(entries, 1, TailLen)

\* self.logs[-8:]
LastEntries(entries) ==
    IF Len(entries) <= TailLen THEN entries
    ELSE SubSeq(entries, Len(entries) - TailLen + 1, Len(entries))

\* the markdown code quote (a backquote in the source), written as an apostrophe
BQ == "'"

\* one line of log_text
FormatLine(log) ==
    <<BQ>> \o log.time \o <<BQ, " ", BQ, "+">> \o log.elapsed \o <<BQ, " ", Icon(log.level), " ">>
        \o log.message
        \o (IF Truthy(log.data) THEN <<" | ">> \o log.data[1] ELSE <<>>)
        \o <<"\n\n">>

RECURSIVE RenderLines(_)
RenderLines(entries) ==
    IF entries = <<>> THEN <<>>
    ELSE FormatLine(Head(entries)) \o RenderLines(Tail(entries))

\* update_display: the text handed to log_placeholder.markdown
UpdateDisplay(entries) == RenderLines(LastEntries(entries))

\* ------------------------------------------------------- category router
\* the six radio labels (src/main.py:280), glossed in ASCII
CatAuto == "AI auto classification"
CatWeb == "web search"
CatDomestic == "domestic HS case search"
CatOverseas == "overseas HS case search"
CatManual == "HS manual analysis"
CatManualRaw == "HS manual raw text search"
RadioLabels == {CatAuto, CatWeb, CatDomestic, CatOverseas, CatManual, CatManualRaw}
\* a label that is in neither the radio list nor the mapping table: it reaches
\* line 145 only through session_state, and exercises the .get default
OtherLabel == "unlisted label"
Labels == RadioLabels \cup {OtherLabel}

Tags == {"web_search", "hs_classification", "overseas_hs", "hs_manual", "hs_manual_raw"}
\* the tags whose branch is one handle_* call
HandlerTags == {"web_search", "hs_classification", "overseas_hs", "hs_manual"}
\* what classify_question may hand back: it is not validated (line 134)
ClassifierOutputs == Tags \cup {"unknown_type"}

\* mutant of CategoryMapping: the default of .get is web_search
CategoryMappingDefaultWeb(c) ==
    CASE c = CatWeb -> "web_search"
      [] c = CatDomestic -> "hs_classification"
      [] c = CatOverseas -> "overseas_hs"
      [] c = CatManual -> "hs_manual"
      [] c = CatManualRaw -> "hs_manual_raw"
      [] OTHER -> "web_search"

\* category_mapping.get(category, "hs_classification")
CategoryMapping(c) ==
    CASE c = CatWeb -> "web_search"
      [] c = CatDomestic -> "hs_classification"
      [] c = CatOverseas -> "overseas_hs"
      [] c = CatManual -> "hs_manual"
      [] c = CatManualRaw -> "hs_manual_raw"
      [] OTHER -> "hs_classification"

\* ------------------------------------------------------------ orchestrator
\* mutant of HandlerOf: the overseas branch calls the domestic handler
HandlerOfOverseasDomestic(tag) ==
    CASE tag = "web_search" -> "handle_web_search"
      [] tag = "hs_classification" -> "handle_hs_classification_cases"
      [] tag = "overseas_hs" -> "handle_hs_classification_cases"
      [] tag = "hs_manual" -> "handle_hs_manual_with_parallel_search"

\* the handle_* function each branch calls (lines 153, 160, 167, 174)
HandlerOf(tag) ==
    CASE tag = "web_search" -> "handle_web_search"
      [] tag = "hs_classification" -> "handle_hs_classification_cases"
      [] tag = "overseas_hs" -> "handle_overseas_hs"
      [] tag = "hs_manual" -> "handle_hs_manual_with_parallel_search"

\* the banner put before the handler's answer (lines 153, 160, 167, 174, 187)
Banner(tag) ==
    CASE tag = "web_search" -> <<"\n\n +++ web search performed +++\n\n">>
      [] tag = "hs_classification" -> <<"\n\n +++ HS classification case search performed +++\n\n">>
      [] tag = "overseas_hs" -> <<"\n\n +++ overseas HS classification search performed +++\n\n">>
      [] tag = "hs_manual" -> <<"\n\n +++ HS manual analysis performed (parallel search) +++ \n\n">>
      [] tag = "hs_manual_raw" -> <<"\n\n +++ HS manual raw text search performed +++ \n\n">>

\* mutant of StartLevel: the starting entry is logged as INFO
StartLevelInfo(tag) == "INFO"

\* the level and message logged right before the handler call
StartLevel(tag) == IF tag = "web_search" THEN "SEARCH" ELSE "AI"
StartMessage(tag) ==
    CASE tag = "web_search" -> <<"Initiating Google Search API call...">>
      [] tag = "hs_classification" -> <<"Starting domestic HS classification search...">>
      [] tag = "overseas_hs" -> <<"Starting overseas HS classification search...">>
      [] tag = "hs_manual" -> <<"Starting enhanced parallel HS manual analysis...">>

\* the message logged right after the handler returned
CompletedMessage(tag) ==
    CASE tag = "web_search" -> <<"Web search completed">>
      [] tag = "hs_classification" -> <<"Domestic HS classification completed">>
      [] tag = "overseas_hs" -> <<"Overseas HS classification completed">>
      [] tag = "hs_manual" -> <<"Enhanced HS manual analysis completed">>

\* mutant of NoCodesAnswer: the message carries the raw-manual banner
NoCodesAnswerBannered ==
    Banner("hs_manual_raw") \o <<"No HS code found. Please enter a 4-digit HS code.">>

\* line 191: the answer when no HS code was found
NoCodesAnswer == <<"No HS code found. Please enter a 4-digit HS code.">>

\* f"{seconds:.2f}s, {len(text)} chars"
TimeAndChars(cs, text) == Fixed2(cs) \o <<"s, ">> \o Dec(Len(text)) \o <<" chars">>

\* mutant of ExceptEntries: the failure-kind entry is missing
ExceptEntriesMessageOnly(entries, t, start, e) ==
    AppendEntry(entries, t, start, "ERROR", <<"Exception occurred: ">> \o e.msg, NoneV)

\* the two entries of the except clause (lines 203-204), added to entries
ExceptEntries(entries, t, start, e) ==
    AppendEntry(
        AppendEntry(entries, t, start, "ERROR", <<"Exception occurred: ">> \o e.msg, NoneV),
        t, start, "ERROR", <<"Error type: ", e.kind>>, NoneV)

\* line 205: raise e
Reraise(e) == e

\* ----------------------------------------------------- conversation state
\* the preamble literal of lines 58-74, one token per line of the literal
InitialContext ==
    <<"You are an HS classification expert of the customs service; classify the question into one of four types.\n",
      "\n",
      "Question types:\n",
      "1. Web Search: general information.\n",
      "2. HS Classification Search: HS code related information.\n",
      "3. HS Manual Analysis: in-depth analysis of the manual.\n",
      "4. Overseas HS Classification: US/EU cases.\n",
      "\n",
      "Important guidelines:\n",
      "1. Consider related, similar and substitute items.\n",
      "2. Explain by composition, use and processing state.\n",
      "3. Include the manual analysis of an HS code the user mentions.\n",
      "4. Present related regulations or precedents.\n",
      "5. Answer concisely and professionally.\n",
      "\n",
      "Conversation so far:\n">>

\* mutant of ResetContext: the reset copy lost its last line
ResetContextDrifted == SubSeq(InitialContext, 1, Len(InitialContext) - 1)

\* the preamble literal of lines 254-270 (the reset button's copy)
ResetContext ==
    <<"You are an HS classification expert of the customs service; classify the question into one of four types.\n",
      "\n",
      "Question types:\n",
      "1. Web Search: general information.\n",
      "2. HS Classification Search: HS code related information.\n",
      "3. HS Manual Analysis: in-depth analysis of the manual.\n",
      "4. Overseas HS Classification: US/EU cases.\n",
      "\n",
      "Important guidelines:\n",
      "1. Consider related, similar and substitute items.\n",
      "2. Explain by composition, use and processing state.\n",
      "3. Include the manual analysis of an HS code the user mentions.\n",
      "4. Present related regulations or precedents.\n",
      "5. Answer concisely and professionally.\n",
      "\n",
      "Conversation so far:\n">>

\* mutant of AppendTurns: the assistant turn is appended before the user turn
AppendTurnsAssistantFirst(history, u, a) ==
    Append(Append(history, [role |-> "assistant", content |-> a]),
           [role |-> "user", content |-> u])

\* lines 332-333: the two appends to chat_history
AppendTurns(history, u, a) ==
    Append(Append(history, [role |-> "user", content |-> u]),
           [role |-> "assistant", content |-> a])

\* line 334: context += f"\n user: {user_input}\n expert: {answer}\n"
ExtendContext(ctx, u, a) ==
    ctx \o <<"\nuser: ">> \o u \o <<"\nexpert: ">> \o a \o <<"\n">>

\* line 325: submit_button and user_input and user_input.strip()
Accepted(u) == u # <<>> /\ Strip(u) # <<>>

\* ------------------------------------------------------------------ inputs
\* what the user may type into the form
Inputs == {<<>>, <<" ">>, <<"q">>, <<"8", "4", "7", "1">>}
\* what a handle_* collaborator, and clean_text, may return
HandlerAnswers == {<<"answer text">>}
CleanedTexts == {<<"manual text">>}
\* what extract_hs_codes may return
CodeLists == {<<>>, << <<"8471">> >>, << <<"8471">>, <<"8542">> >>}
\* what a collaborator may raise
Failures ==
    {[kind |-> "ConnectionError", msg |-> <<"network unreachable">>],
     [kind |-> "ValueError", msg |-> <<"malformed response">>]}
\* what line 194 raises when no branch bound answer
UnboundAnswer ==
    [kind |-> "UnboundLocalError",
     msg |-> <<"cannot access local variable 'answer' where it is not associated with a value">>]
NoFailure == [kind |-> "", msg |-> <<>>]
\* the kinds of the hs_manual collaborator's sub-events ("DEBUG" has no icon)
SubKinds == {"ERROR", "DEBUG"}
Workers == 1..NWorkers

\* ------------------------------------------------------------------- state
VARIABLES
    chat_history,       \* st.session_state.chat_history
    context,            \* st.session_state.context
    selected_category,  \* st.session_state.selected_category
    shown_error,        \* the st.error notice on the page, if any
    pc,                 \* where the script run is
    user_input,         \* the submitted text
    category,           \* process_query's local category
    q_type,             \* its local q_type ("" while unbound)
    answer,             \* its local answer (NoneV while unbound)
    hs_codes,           \* its local hs_codes
    exc,                \* the exception travelling up the try block
    propagated,         \* the exception that left process_query
    logs,               \* logger.logs
    display,            \* the content of logger.log_placeholder
    start_time,         \* logger.start_time
    answer_start,       \* local answer_start
    call_start,         \* local start_time / start_classify / ai_start / raw_start
    now,                \* the clock, in hundredths of a second since the submit
    calls,              \* the collaborator calls made, each with len(logs) at the call
    subs,               \* sub-events the hs_manual collaborator recorded so far
    wpc,                \* each parallel sub-search's place in log_actual
    wsnap,              \* each parallel sub-search's self.logs[-8:]
    pre_history,        \* chat_history as it was when the query was submitted
    pre_context,        \* context as it was when the query was submitted
    records,            \* log_actual calls made on the Logger so far
    last_reset          \* <<n>> right after a reset that dropped n turns, else <<>>

session == <<chat_history, context, selected_category, shown_error>>
locals == <<user_input, category, q_type, answer, hs_codes, exc, propagated>>
logger == <<logs, display, start_time, records>>
timing == <<answer_start, call_start, now>>
workers == <<wpc, wsnap>>
ghost == <<pre_history, pre_context, last_reset>>
vars == <<session, pc, locals, logger, timing, calls, subs, workers, ghost>>

\* the states in which the script waits for a collaborator to return
CallStates == {"loading", "classify", "handler", "extract", "retrieve", "clean"}

AllReady == [w \in Workers |-> "ready"]
NoSnaps == [w \in Workers |-> <<>>]
\* no log_actual call of a sub-search is under way
Quiet == \A w \in Workers : wpc[w] \in {"ready", "done"}

\* logger.log_actual(level, message, data): append, then update_display
LogActual(level, message, data) ==
    /\ logs' = AppendEntry(logs, now, start_time, level, message, data)
    /\ display' = UpdateDisplay(logs')
    /\ records' = records + 1

\* a collaborator is entered: the call and the number of entries logged before it
Called(fn, entries) == Append(calls, [fn |-> fn, at |-> Len(entries)])

Init ==
    /\ chat_history = <<>>
    /\ context = InitialContext
    /\ selected_category = CatAuto
    /\ shown_error = NoneV
    /\ pc = "idle"
    /\ user_input = <<>>
    /\ category = ""
    /\ q_type = ""
    /\ answer = NoneV
    /\ hs_codes = <<>>
    /\ exc = NoFailure
    /\ propagated = NoFailure
    /\ logs = <<>>
    /\ display = <<>>
    /\ start_time = 0
    /\ answer_start = 0
    /\ call_start = 0
    /\ now = 0
    /\ calls = <<>>
    /\ subs = 0
    /\ wpc = AllReady
    /\ wsnap = NoSnaps
    /\ pre_history = <<>>
    /\ pre_context = <<>>
    /\ records = 0
    /\ last_reset = <<>>

\* the script run is over: its locals and its Logger are gone
RunEnds ==
    /\ pc' = "idle"
    /\ user_input' = <<>>
    /\ category' = ""
    /\ q_type' = ""
    /\ answer' = NoneV
    /\ hs_codes' = <<>>
    /\ exc' = NoFailure
    /\ propagated' = NoFailure
    /\ start_time' = 0
    /\ answer_start' = 0
    /\ call_start' = 0
    /\ now' = 0
    /\ calls' = <<>>
    /\ subs' = 0
    /\ wpc' = AllReady
    /\ wsnap' = NoSnaps

\* a rerun repaints the page: the log panel and the error notice are gone
PageCleared ==
    /\ logs' = <<>>
    /\ display' = <<>>
    /\ records' = 0
    /\ shown_error' = NoneV
    /\ pre_history' = <<>>
    /\ pre_context' = <<>>

\* lines 278-285: the radio sets the category, and the script reruns
SelectCategory(c) ==
    /\ pc = "idle"
    /\ c # selected_category
    /\ selected_category' = c
    /\ PageCleared
    /\ last_reset' = <<>>
    /\ UNCHANGED <<chat_history, context, pc, locals, start_time, timing, calls, subs, workers>>

\* lines 251-271: the new-chat button
ResetChat ==
    /\ pc = "idle"
    /\ chat_history' = <<>>
    /\ context' = ResetContext
    /\ PageCleared
    /\ last_reset' = <<Len(chat_history)>>
    /\ UNCHANGED <<selected_category, pc, locals, start_time, timing, calls, subs, workers>>

\* lines 325-329 and 117-124: the form is submitted with an accepted text, the
\* Logger is built, the start entry is logged and get_hs_manager is entered
Submit(u) ==
    /\ pc = "idle"
    /\ Accepted(u)
    /\ Len(chat_history) < 2 * MaxTurns
    /\ user_input' = u
    /\ shown_error' = NoneV
    /\ pre_history' = chat_history
    /\ pre_context' = context
    /\ last_reset' = <<>>
    /\ now' = 0
    /\ start_time' = 0
    /\ call_start' = 0
    /\ logs' = AppendEntry(<<>>, 0, 0, "INFO", <<"Query processing started">>,
                           Some(<<"Input length: ">> \o Dec(Len(u))))
    /\ display' = UpdateDisplay(logs')
    /\ records' = 1
    /\ calls' = Called("get_hs_manager", logs')
    /\ pc' = "loading"
    /\ UNCHANGED <<chat_history, context, selected_category, category, q_type, answer,
                   hs_codes, exc, propagated, answer_start, subs, workers>>

\* time passes while a collaborator is at work
Tick ==
    /\ pc \in CallStates
    /\ now < MaxClock
    /\ now' = now + 1
    /\ UNCHANGED <<session, pc, locals, logger, answer_start, call_start, calls, subs,
                   workers, ghost>>

\* lines 125-129: get_hs_manager returned
ManagerLoaded ==
    /\ pc = "loading"
    /\ category' = selected_category
    /\ LET l1 == AppendEntry(logs, now, start_time, "SUCCESS", <<"HSDataManager loaded">>,
                             Some(Fixed2(now - call_start) \o <<"s">>))
       IN  logs' = AppendEntry(l1, now, start_time, "INFO", <<"Category selected">>,
                               Some(<<selected_category>>))
    /\ display' = UpdateDisplay(logs')
    /\ records' = records + 2
    /\ pc' = "resolve"
    /\ UNCHANGED <<session, user_input, q_type, answer, hs_codes, exc, propagated,
                   start_time, timing, calls, subs, workers, ghost>>

\* lines 131-134: category auto, classify_question is entered
ClassifyStart ==
    /\ pc = "resolve"
    /\ category = CatAuto
    /\ LogActual("AI", <<"Starting LLM question classification...">>, NoneV)
    /\ call_start' = now
    /\ calls' = Called("classify_question", logs')
    /\ pc' = "classify"
    /\ UNCHANGED <<session, locals, start_time, answer_start, now, subs, workers, ghost>>

\* lines 134-136: classify_question returned t
ClassifyReturn(t) ==
    /\ pc = "classify"
    /\ q_type' = t
    /\ LogActual("SUCCESS", <<"LLM classification completed">>,
                 Some(<<t, " in ">> \o Fixed2(now - call_start) \o <<"s">>))
    /\ pc' = "dispatch"
    /\ UNCHANGED <<session, user_input, category, answer, hs_codes, exc, propagated,
                   start_time, timing, calls, subs, workers, ghost>>

\* lines 137-146: any other category, the table decides
MapCategory ==
    /\ pc = "resolve"
    /\ category # CatAuto
    /\ q_type' = CategoryMapping(category)
    /\ LogActual("INFO", <<"Question type mapped">>, Some(<<q_type'>>))
    /\ pc' = "dispatch"
    /\ UNCHANGED <<session, user_input, category, answer, hs_codes, exc, propagated,
                   start_time, timing, calls, subs, workers, ghost>>

\* lines 148-174: one of the four handle_* branches, up to the handler call
DispatchHandler ==
    /\ pc = "dispatch"
    /\ q_type \in HandlerTags
    /\ answer_start' = now
    /\ LogActual(StartLevel(q_type), StartMessage(q_type), NoneV)
    /\ call_start' = now
    /\ calls' = Called(HandlerOf(q_type), logs')
    /\ pc' = "handler"
    /\ UNCHANGED <<session, locals, start_time, now, subs, workers, ghost>>

\* lines 153-155, 160-162, 167-169, 174-176: the handler returned r
HandlerReturn(r) ==
    /\ pc = "handler"
    /\ Quiet
    /\ answer' = Some(Banner(q_type) \o r)
    /\ LogActual("SUCCESS", CompletedMessage(q_type),
                 Some(TimeAndChars(now - call_start, answer'[1])))
    /\ pc' = "finish"
    /\ wpc' = AllReady
    /\ wsnap' = NoSnaps
    /\ UNCHANGED <<session, user_input, category, q_type, hs_codes, exc, propagated,
                   start_time, timing, calls, subs, ghost>>

\* lines 148, 178-180: the raw-manual branch, up to the extract_hs_codes call
DispatchRaw ==
    /\ pc = "dispatch"
    /\ q_type = "hs_manual_raw"
    /\ answer_start' = now
    /\ LogActual("SEARCH", <<"Extracting HS codes...">>, NoneV)
    /\ calls' = Called("extract_hs_codes", logs')
    /\ pc' = "extract"
    /\ UNCHANGED <<session, locals, start_time, call_start, now, subs, workers, ghost>>

\* lines 180-185: extract_hs_codes returned codes, get_hs_explanations is entered
ExtractFound(codes) ==
    /\ pc = "extract"
    /\ codes # <<>>
    /\ hs_codes' = codes
    /\ LET l1 == AppendEntry(logs, now, start_time, "SUCCESS",
                             <<"Found ">> \o Dec(Len(codes)) \o <<" HS codes">>,
                             Some(Join(codes, <<", ">>)))
       IN  logs' = AppendEntry(l1, now, start_time, "DATA",
                               <<"Retrieving raw HS explanations...">>, NoneV)
    /\ display' = UpdateDisplay(logs')
    /\ records' = records + 2
    /\ call_start' = now
    /\ calls' = Called("get_hs_explanations", logs')
    /\ pc' = "retrieve"
    /\ UNCHANGED <<session, user_input, category, q_type, answer, exc, propagated,
                   start_time, answer_start, now, subs, workers, ghost>>

\* lines 180-181, 189-191: extract_hs_codes returned an empty list
ExtractEmpty(codes) ==
    /\ pc = "extract"
    /\ codes = <<>>
    /\ hs_codes' = codes
    /\ LogActual("ERROR", <<"No valid HS codes found in input">>, NoneV)
    /\ answer' = Some(NoCodesAnswer)
    /\ pc' = "finish"
    /\ UNCHANGED <<session, user_input, category, q_type, exc, propagated,
                   start_time, timing, calls, subs, workers, ghost>>

\* line 185: get_hs_explanations returned, clean_text is entered
RetrieveReturn ==
    /\ pc = "retrieve"
    /\ calls' = Called("clean_text", logs)
    /\ pc' = "clean"
    /\ UNCHANGED <<session, locals, logger, timing, subs, workers, ghost>>

\* lines 185-188: clean_text returned cleaned
CleanReturn(cleaned) ==
    /\ pc = "clean"
    /\ answer' = Some(Banner("hs_manual_raw") \o cleaned)
    /\ LogActual("SUCCESS", <<"Raw HS manual retrieved">>,
                 Some(TimeAndChars(now - call_start, cleaned)))
    /\ pc' = "finish"
    /\ UNCHANGED <<session, user_input, category, q_type, hs_codes, exc, propagated,
                   start_time, timing, calls, subs, workers, ghost>>

\* mutant of DispatchUnmapped: an unmapped tag falls back to hs_classification
DispatchUnmappedFallsBack ==
    /\ pc = "dispatch"
    /\ q_type \notin Tags
    /\ q_type' = "hs_classification"
    /\ UNCHANGED <<session, pc, user_input, category, answer, hs_codes, exc, propagated,
                   logger, timing, calls, subs, workers, ghost>>

\* lines 150-194: q_type matches no branch, so answer is unbound when line 194
\* reads it
DispatchUnmapped ==
    /\ pc = "dispatch"
    /\ q_type \notin Tags
    /\ answer_start' = now
    /\ exc' = UnboundAnswer
    /\ pc' = "except"
    /\ UNCHANGED <<session, user_input, category, q_type, answer, hs_codes, propagated,
                   logger, call_start, now, calls, subs, workers, ghost>>

\* lines 193-200: the two closing entries, and the answer is returned
Finish ==
    /\ pc = "finish"
    /\ LET l1 == AppendEntry(logs, now, start_time, "SUCCESS",
                             <<"Answer generation completed">>,
                             Some(TimeAndChars(now - answer_start, answer[1])))
       IN  logs' = AppendEntry(l1, now, start_time, "INFO",
                               <<"Process completed successfully">>,
                               Some(<<"Total time: ">> \o Fixed2(now - start_time) \o <<"s">>))
    /\ display' = UpdateDisplay(logs')
    /\ records' = records + 2
    /\ pc' = "returned"
    /\ UNCHANGED <<session, locals, start_time, timing, calls, subs, workers, ghost>>

\* a collaborator raises f instead of returning (its sub-searches are joined)
CollaboratorRaises(f) ==
    /\ pc \in CallStates
    /\ Quiet
    /\ exc' = f
    /\ pc' = "except"
    /\ wpc' = AllReady
    /\ wsnap' = NoSnaps
    /\ UNCHANGED <<session, user_input, category, q_type, answer, hs_codes, propagated,
                   logger, timing, calls, subs, ghost>>

\* lines 202-205: the except clause
Except ==
    /\ pc = "except"
    /\ logs' = ExceptEntries(logs, now, start_time, exc)
    /\ display' = UpdateDisplay(logs')
    /\ records' = records + 2
    /\ propagated' = Reraise(exc)
    /\ pc' = "raised"
    /\ UNCHANGED <<session, user_input, category, q_type, answer, hs_codes, exc,
                   start_time, timing, calls, subs, workers, ghost>>

\* lines 329-337: the answer came back, the exchange is recorded, the script reruns
AppendTurn ==
    /\ pc = "returned"
    /\ chat_history' = AppendTurns(chat_history, user_input, answer[1])
    /\ context' = ExtendContext(context, user_input, answer[1])
    /\ RunEnds
    /\ PageCleared
    /\ UNCHANGED <<selected_category, last_reset>>

\* lines 339-340: the failure came back and the notice is shown; the run is over
\* and its Logger is discarded with it
ShowError ==
    /\ pc = "raised"
    /\ shown_error' = Some(<<"An error occurred during processing: ">> \o propagated.msg)
    /\ RunEnds
    /\ logs' = <<>>
    /\ display' = <<>>
    /\ records' = 0
    /\ UNCHANGED <<chat_history, context, selected_category, ghost>>

\* line 174: the hs_manual collaborator holds the Logger and records a sub-event
\* from the calling thread
SubEvent(k) ==
    /\ pc = "handler"
    /\ q_type = "hs_manual"
    /\ Quiet
    /\ subs < MaxSubEvents
    /\ subs' = subs + 1
    /\ LogActual(k, <<"parallel sub-search">>, NoneV)
    /\ UNCHANGED <<session, pc, locals, start_time, timing, calls, workers, ghost>>

\* a parallel sub-search enters log_actual: lines 85-95, up to the append
WorkerAppend(w) ==
    /\ pc = "handler"
    /\ q_type = "hs_manual"
    /\ wpc[w] = "ready"
    /\ logs' = AppendEntry(logs, now, start_time, "SEARCH",
                           <<"parallel sub-search ">> \o Dec(w), NoneV)
    /\ records' = records + 1
    /\ wpc' = [wpc EXCEPT ![w] = "appended"]
    /\ UNCHANGED <<session, pc, locals, display, start_time, timing, calls, subs, wsnap,
                   ghost>>

\* line 102: it takes self.logs[-8:]
WorkerSlice(w) ==
    /\ wpc[w] = "appended"
    /\ wsnap' = [wsnap EXCEPT ![w] = LastEntries(logs)]
    /\ wpc' = [wpc EXCEPT ![w] = "sliced"]
    /\ UNCHANGED <<session, pc, locals, logger, timing, calls, subs, ghost>>

\* lines 102-107: it formats its slice and hands the text to the placeholder
WorkerRender(w) ==
    /\ wpc[w] = "sliced"
    /\ display' = RenderLines(wsnap[w])
    /\ wsnap' = [wsnap EXCEPT ![w] = <<>>]
    /\ wpc' = [wpc EXCEPT ![w] = "done"]
    /\ UNCHANGED <<session, pc, locals, logs, start_time, records, timing, calls, subs,
                   ghost>>

\* ---------------------------------------------------------- specifications
Script ==
    \/ \E c \in Labels : SelectCategory(c)
    \/ ResetChat
    \/ \E u \in Inputs : Submit(u)
    \/ Tick
    \/ ManagerLoaded
    \/ ClassifyStart
    \/ \E t \in ClassifierOutputs : ClassifyReturn(t)
    \/ MapCategory
    \/ DispatchHandler
    \/ \E r \in HandlerAnswers : HandlerReturn(r)
    \/ DispatchRaw
    \/ \E codes \in CodeLists : ExtractFound(codes)
    \/ \E codes \in CodeLists : ExtractEmpty(codes)
    \/ RetrieveReturn
    \/ \E cleaned \in CleanedTexts : CleanReturn(cleaned)
    \/ DispatchUnmapped
    \/ Finish
    \/ \E f \in Failures : CollaboratorRaises(f)
    \/ Except
    \/ AppendTurn
    \/ ShowError

\* the hs_manual collaborator records its sub-events one after the other
Next == Script \/ \E k \in SubKinds : SubEvent(k)

Spec == Init /\ [][Next]_vars

\* the hs_manual collaborator's parallel sub-searches record them concurrently
NextPar ==
    \/ Script
    \/ \E w \in Workers : WorkerAppend(w)
    \/ \E w \in Workers : WorkerSlice(w)
    \/ \E w \in Workers : WorkerRender(w)

SpecPar == Init /\ [][NextPar]_vars

\* ------------------------------------------------------- claims: helpers
\* the names of the collaborators called so far, in call order
CallNames == [i \in 1..Len(calls) |-> calls[i].fn]
IsAnswering(c) == c.fn \notin {"get_hs_manager", "classify_question"}
\* the calls that produce the answer: handlers, extraction, retrieval, cleaning
AnsweringCalls == SelectSeq(calls, IsAnswering)
AnsweringNames == [i \in 1..Len(AnsweringCalls) |-> AnsweringCalls[i].fn]
NoCallTwice == \A i, j \in 1..Len(calls) : calls[i].fn = calls[j].fn => i = j

\* an entry the hs_manual collaborator recorded, not the Orchestrator
IsSubEvent(e) == e.message[1] \in {"parallel sub-search", "parallel sub-search "}
ErrorEntries(entries) == {i \in 1..Len(entries) : entries[i].level = "ERROR"}
OrchestratorErrors(entries) ==
    {i \in ErrorEntries(entries) : ~IsSubEvent(entries[i])}

\* the query ended with the two entries of a failure e: its message, then its kind
EndsWithFailure(entries, e) ==
    LET n == Len(entries)
    IN  /\ n >= 2
        /\ entries[n - 1].level = "ERROR"
        /\ entries[n - 1].message = <<"Exception occurred: ">> \o e.msg
        /\ entries[n].level = "ERROR"
        /\ entries[n].message = <<"Error type: ", e.kind>>

RECURSIVE SplitLines(_)
\* a displayed text cut after each line terminator
SplitLines(text) ==
    IF text = <<>> THEN <<>>
    ELSE LET ends == {i \in 1..Len(text) : text[i] = "\n\n"}
             cut == IF ends = {} THEN Len(text)
                    ELSE CHOOSE i \in ends : \A j \in ends : i <= j
         IN  <<SubSeq(text, 1, cut)>> \o SplitLines(SubSeq(text, cut + 1, Len(text)))

\* text shows exactly the last min(n, 8) of the n entries, oldest first
ShowsTail(text, entries) ==
    LET n == Len(entries)
        k == IF n < 8 THEN n ELSE 8
        lines == SplitLines(text)
    IN  /\ Len(lines) = k
        /\ \A j \in 1..k : lines[j] = FormatLine(entries[n - k + j])

\* ------------------------------------------------------------------ claims
\* C1: when a collaborator called by process_query_with_real_logging raises,
\* the Orchestrator's ERROR entries are exactly two, the failure's message and
\* then its kind, as the last two entries; the same failure leaves the
\* function; nothing is called twice; chat_history and context are what they
\* were when the query was submitted, also once the caller has shown the notice.
C1_FailureLoggedAndPropagated ==
    /\ (pc = "raised" /\ exc \in Failures) =>
           /\ EndsWithFailure(logs, exc)
           /\ OrchestratorErrors(logs) = {Len(logs) - 1, Len(logs)}
           /\ propagated = exc
           /\ NoCallTwice
           /\ answer = NoneV
           /\ chat_history = pre_history
           /\ context = pre_context
    /\ shown_error # NoneV => chat_history = pre_history /\ context = pre_context

\* C1 witness: the hs_manual handler raised after a sub-event, in a session
\* that already holds an exchange
C1_Witness ==
    /\ pc = "raised"
    /\ exc \in Failures
    /\ q_type = "hs_manual"
    /\ subs = 1
    /\ CallNames[Len(calls)] = "handle_hs_manual_with_parallel_search"
    /\ Len(chat_history) = 2

\* the handler, and the first token of the banner, the spec gives each strategy
C2_Handler(tag) ==
    CASE tag = "web_search" -> "handle_web_search"
      [] tag = "hs_classification" -> "handle_hs_classification_cases"
      [] tag = "overseas_hs" -> "handle_overseas_hs"
      [] tag = "hs_manual" -> "handle_hs_manual_with_parallel_search"
C2_Banner(tag) ==
    CASE tag = "web_search" -> "\n\n +++ web search performed +++\n\n"
      [] tag = "hs_classification" -> "\n\n +++ HS classification case search performed +++\n\n"
      [] tag = "overseas_hs" -> "\n\n +++ overseas HS classification search performed +++\n\n"
      [] tag = "hs_manual" -> "\n\n +++ HS manual analysis performed (parallel search) +++ \n\n"
      [] tag = "hs_manual_raw" -> "\n\n +++ HS manual raw text search performed +++ \n\n"
C2_Begins(tag) == answer # NoneV /\ answer[1] # <<>> /\ answer[1][1] = C2_Banner(tag)
\* no collaborator of another strategy is ever called
C2_OnlyOwn ==
    /\ q_type \in HandlerTags => \A i \in 1..Len(AnsweringNames) : AnsweringNames[i] = C2_Handler(q_type)
    /\ q_type = "hs_manual_raw" =>
           \A i \in 1..Len(AnsweringNames) :
               AnsweringNames[i] \in {"extract_hs_codes", "get_hs_explanations", "clean_text"}
    /\ q_type \notin Tags => AnsweringNames = <<>>

\* C2 as stated: whenever an answer is returned for one of the five tags, the
\* collaborators called are exactly those of the tag and the answer begins
\* with the tag's banner.
C2_Original ==
    /\ C2_OnlyOwn
    /\ (pc = "returned" /\ q_type \in HandlerTags) =>
           AnsweringNames = <<C2_Handler(q_type)>> /\ C2_Begins(q_type)
    /\ (pc = "returned" /\ q_type = "hs_manual_raw") =>
           AnsweringNames[1] = "extract_hs_codes" /\ C2_Begins(q_type)

\* C2 amended: as C2, except that hs_manual_raw with no extracted code calls
\* extract_hs_codes only and returns the fixed no-codes message with no banner;
\* with codes it calls extract_hs_codes, get_hs_explanations and clean_text,
\* once each in that order, and the answer begins with the raw-manual banner.
C2_Amended ==
    /\ C2_OnlyOwn
    /\ (pc = "returned" /\ q_type \in HandlerTags) =>
           AnsweringNames = <<C2_Handler(q_type)>> /\ C2_Begins(q_type)
    /\ (pc = "returned" /\ q_type = "hs_manual_raw" /\ hs_codes # <<>>) =>
           /\ AnsweringNames = <<"extract_hs_codes", "get_hs_explanations", "clean_text">>
           /\ C2_Begins(q_type)
    /\ (pc = "returned" /\ q_type = "hs_manual_raw" /\ hs_codes = <<>>) =>
           /\ AnsweringNames = <<"extract_hs_codes">>
           /\ answer = <<NoCodesAnswer>>
           /\ ~C2_Begins(q_type)

\* C2 witness: category auto, the classifier said overseas_hs, the overseas
\* handler answered
C2_Witness ==
    /\ pc = "returned"
    /\ category = CatAuto
    /\ q_type = "overseas_hs"
    /\ CallNames = <<"get_hs_manager", "classify_question", "handle_overseas_hs">>

\* C3: for a category other than auto, q_type is the table's tag for the five
\* labels and hs_classification for any other label, whatever the question,
\* and classify_question is never called.
C3_TableDecides ==
    (category # "" /\ category # CatAuto /\ q_type # "") =>
        /\ category = CatWeb => q_type = "web_search"
        /\ category = CatDomestic => q_type = "hs_classification"
        /\ category = CatOverseas => q_type = "overseas_hs"
        /\ category = CatManual => q_type = "hs_manual"
        /\ category = CatManualRaw => q_type = "hs_manual_raw"
        /\ category \notin {CatWeb, CatDomestic, CatOverseas, CatManual, CatManualRaw}
               => q_type = "hs_classification"
        /\ \A i \in 1..Len(calls) : CallNames[i] # "classify_question"

\* C3 witness: a label outside the table was answered as hs_classification
C3_Witness ==
    /\ pc = "returned"
    /\ category = OtherLabel
    /\ q_type = "hs_classification"
    /\ user_input = <<"8", "4", "7", "1">>

\* C4: after n log_actual calls on a Logger the entry list holds n entries and
\* the display holds exactly the last min(n, 8) of them, oldest first; within
\* a query the list only grows at its end.
C4_TailOfEight ==
    /\ [](Len(logs) = records /\ ShowsTail(display, logs))
    /\ [][(pc # "idle" /\ pc' # "idle") => IsPrefix(logs, logs')]_vars

\* C4 witness: eleven entries were recorded and eight lines are shown
C4_Witness == records = 11 /\ Len(SplitLines(display)) = 8

\* C5: hs_manual_raw, extract_hs_codes returned no code: the query goes on to
\* return the fixed message with no banner, without raising; the log holds
\* exactly one ERROR entry; get_hs_explanations and clean_text are not called.
C5_NoCodesAnswered ==
    (/\ q_type = "hs_manual_raw"
     /\ hs_codes = <<>>
     /\ pc \notin {"dispatch", "extract"}
     /\ exc = NoFailure) =>
        /\ pc \in {"finish", "returned"}
        /\ answer = << <<"No HS code found. Please enter a 4-digit HS code.">> >>
        /\ Cardinality(ErrorEntries(logs)) = 1
        /\ AnsweringNames = <<"extract_hs_codes">>

\* C5 witness: the no-codes message was returned
C5_Witness ==
    /\ pc = "returned"
    /\ q_type = "hs_manual_raw"
    /\ hs_codes = <<>>
    /\ answer = <<NoCodesAnswer>>

\* C6: the step that records a returned answer appends the user turn and then
\* the assistant turn after the earlier turns, and appends the formatted
\* exchange to the context, which grows; no other step adds a turn.
C6_TwoTurnsAppended ==
    [][LET n == Len(chat_history)
       IN  /\ pc = "returned" =>
                 /\ Len(chat_history') = n + 2
                 /\ SubSeq(chat_history', 1, n) = chat_history
                 /\ chat_history'[n + 1] = [role |-> "user", content |-> user_input]
                 /\ chat_history'[n + 2] = [role |-> "assistant", content |-> answer[1]]
                 /\ context' = context \o <<"\nuser: ">> \o user_input
                                       \o <<"\nexpert: ">> \o answer[1] \o <<"\n">>
                 /\ Len(context') > Len(context)
                 /\ IsPrefix(context, context')
           /\ pc # "returned" =>
                 /\ chat_history' = chat_history \/ chat_history' = <<>>
                 /\ context' = context \/ context' = InitialContext]_vars

\* C6 witness: a second exchange was appended after the first
C6_Witness ==
    /\ pc = "idle"
    /\ Len(chat_history) = 4
    /\ chat_history[3].role = "user"
    /\ chat_history[4].role = "assistant"
    /\ Len(context) > Len(InitialContext)

\* C7: right after the new-chat button the transcript is empty and the context
\* is the preamble the session started with.
C7_ResetRestores ==
    last_reset # <<>> => chat_history = <<>> /\ context = InitialContext

\* C7 witness: a reset dropped two exchanges
C7_Witness == last_reset = <<4>>

\* C8: once every concurrent log_actual call of the hs_manual collaborator has
\* returned, the entry list holds one entry per call and the display shows the
\* last eight entries of the list.
C8_ConcurrentRecordSafe ==
    (pc = "handler" /\ q_type = "hs_manual" /\ Quiet) =>
        /\ Len(logs) = records
        /\ ShowsTail(display, logs)

\* C9: a query answered by one of the four handlers logged, in this order: the
\* INFO start entry with the input length first; the resolution of the
\* strategy before the handler call; an AI or SEARCH entry as the last entry
\* before the call; after the collaborator's own entries a SUCCESS entry; and
\* SUCCESS (answer generation) then INFO (total time) as the last two.
C9_LogOrder ==
    (pc = "returned" /\ q_type \in HandlerTags) =>
        LET n == Len(logs)
            h == AnsweringCalls[1].at
        IN  /\ logs[1].level = "INFO"
            /\ logs[1].message = <<"Query processing started">>
            /\ logs[1].data = << <<"Input length: ">> \o Dec(Len(user_input)) >>
            /\ \E i \in 2..(h - 1) :
                   /\ logs[i].message \in {<<"LLM classification completed">>,
                                           <<"Question type mapped">>}
                   /\ logs[i].level = (IF category = CatAuto THEN "SUCCESS" ELSE "INFO")
                   /\ logs[i].data[1][1] = q_type
            /\ logs[h].level \in {"AI", "SEARCH"}
            /\ ~IsSubEvent(logs[h])
            /\ \A i \in (h + 1)..(h + subs) : IsSubEvent(logs[i])
            /\ logs[h + subs + 1].level = "SUCCESS"
            /\ ~IsSubEvent(logs[h + subs + 1])
            /\ n = h + subs + 3
            /\ logs[n - 1].level = "SUCCESS"
            /\ logs[n - 1].message = <<"Answer generation completed">>
            /\ logs[n].level = "INFO"
            /\ logs[n].message = <<"Process completed successfully">>
            /\ answer # NoneV

\* C9 witness: hs_manual chosen by the classifier, a sub-event in between
C9_Witness ==
    /\ pc = "returned"
    /\ category = CatAuto
    /\ q_type = "hs_manual"
    /\ subs = 1
    /\ now = 1

\* the classifier's answer, as logged, is none of the five tags
ClassifiedUnmapped ==
    \E i \in 1..Len(logs) :
        /\ logs[i].message = <<"LLM classification completed">>
        /\ logs[i].data[1][1] \notin Tags

\* C10: category auto and a classifier answer outside the five tags: no
\* handler is called, no answer is bound or returned, the query ends with two
\* ERROR entries (message, kind) and a failure leaves the function; the
\* transcript and the context stay as they were.
C10_UnmappedFails ==
    /\ ClassifiedUnmapped =>
           /\ AnsweringNames = <<>>
           /\ answer = NoneV
           /\ pc \in {"dispatch", "except", "raised"}
           /\ chat_history = pre_history
           /\ context = pre_context
           /\ pc = "raised" =>
                  /\ propagated.kind # ""
                  /\ propagated = exc
                  /\ EndsWithFailure(logs, propagated)
                  /\ ErrorEntries(logs) = {Len(logs) - 1, Len(logs)}
    /\ (shown_error # NoneV /\ shown_error[1][2] = UnboundAnswer.msg[1]) =>
           chat_history = pre_history /\ context = pre_context

\* C10 witness: the failure of an unmapped classification reached the caller
C10_Witness ==
    /\ pc = "raised"
    /\ category = CatAuto
    /\ q_type = "unknown_type"
    /\ propagated = UnboundAnswer

====
